---- MODULE Spec2Model ----
(***************************************************************************)
(* Terrain scenes of motion_imitation/envs/scenes: RandomStepstoneScene    *)
(* (stepstone_terrain.py), RandomHeightFieldTerrain                        *)
(* (random_heightfiled_terrain.py) and Terrain (plane_terrain.py), with    *)
(* the physics engine, the owning environment and the two process-wide     *)
(* random streams (numpy's np.random and Python's random) they act on.     *)
(*                                                                         *)
(* Lengths are integers in micrometres.  A random stream is a state      *)
(* <<key, position>>: the key is what the stream was seeded with, the      *)
(* position the number of draws since.  random() advances the position and *)
(* returns Value(state)/RandMod, so a uniform(low, high) draw is kept as    *)
(* the integer RandMod * value.                                            *)
(***************************************************************************)
EXTENDS Integers, Sequences, FiniteSets, TLC

(* ------------------------------ bounds -------------------------------- *)
MaxStones == 2
MaxBuilds == 3
MaxDim == 4
MaxColors == 2

(* ------------------------- program constants -------------------------- *)
StoneWidthLower == 2000000
StoneWidthUpper == 3000000
StoneLengthLower == 100000
StoneLengthUpper == 300000
GapLengthLower == 100000
GapLengthUpper == 300000
HeightOffsetLower == 0
HeightOffsetUpper == 1
FloorHeightLower == -500000
FloorHeightUpper == -550000
PlatformLengthLower == 750000
PlatformLengthUpper == 1000000
HeightRange == 30000
HeightRangeFactor == 5
HeightPerturbationRange == 50000
TerrainSeed == 10
DefaultSeed == 10
ColorLength == 4

(* Python's None for an Optional[int] seed, and an attribute not yet set. *)
NoSeed == -1
Unset == -1

(* ----------------------- the random streams --------------------------- *)
(* Draws one seeding can be followed by, more than any run within the      *)
(* bounds makes on one stream, so no run sees a stream wrap around.        *)
StreamLen == 32

(* Keys an integer seed can map to; the keys from SeededKeys on belong to  *)
(* seedings from operating-system entropy.                                 *)
SeededKeys == 4

(* Denominator of a draw: every <<key, position>> has a value of its own.  *)
RandMod == 512
StreamStates == (0 .. (RandMod \div StreamLen - 1)) \X (0 .. (StreamLen - 1))

(* The states the k-th seeding from operating-system entropy (import time, *)
(* seed(None), RandomState(None)) can leave a stream in: keys no integer   *)
(* seed and no other entropy seeding uses, so two such streams, or one and *)
(* a seeded stream, share no run of values.                                *)
EntropyStates(k) == {<<SeededKeys + 2 * k, 0>>, <<SeededKeys + 2 * k + 1, 0>>}

(* One step of the generator behind random() / RandomState.uniform.       *)
Advance(s) == <<s[1], (s[2] + 1) % StreamLen>>

(* The state seed(n) puts a stream in: a fixed function of the integer n.  *)
SeedState(n) == <<n % SeededKeys, 0>>

(* The generator's output function: a bijection on 0..RandMod-1.           *)
Scramble(x) == (2 * x * x + x) % RandMod

(* RandMod * random() for the stream state s the draw produced.            *)
Value(s) == Scramble((s[1] * StreamLen + s[2]) % RandMod)

(* uniform(low, high) = low + (high - low) * random(), times RandMod, for  *)
(* the stream state u the draw produced.                                   *)
Uniform(low, high, u) == low * RandMod + (high - low) * Value(u)

Seeds == {DefaultSeed, NoSeed}

(* ------------------------------ state --------------------------------- *)
VARIABLES
  bodies,            \* engine: ids of the bodies alive in the simulation
  nextBodyId,        \* engine: the id the next created body gets
  engineCalls,       \* engine: number of API calls received
  rendering,         \* engine: COV_ENABLE_RENDERING flag
  npStream,          \* state of numpy's process-wide np.random stream
  pyStream,          \* state of Python's process-wide random stream
  sceneClass,        \* class of the scene object, "None" before construction
  config,            \* the constructor arguments kept on the scene
  pybullet_client,   \* self._pybullet_client: "unset", "none" or "client"
  step_stones_ids,   \* self.step_stones_ids
  floor_id,          \* self.floor_id
  floor_height,      \* self._floor_height
  heightfieldData,   \* the grid handed to createCollisionShape
  first_stone_id,    \* build_scene local
  stepstone_ids,     \* build_scene local
  course,            \* what the last stepstone build planned
  prevCourse,        \* what the build before it planned
  samples,           \* heights drawn by the last heightfield build, in order
  prevData,          \* grid of the heightfield build before the last
  created,           \* bodies created by the most recent build
  buildCount,        \* number of completed build_scene calls
  failedBuilds,      \* number of build_scene calls that raised
  envGround,         \* env: argument of the last set_ground call
  setGroundCalls,    \* env: set_ground calls made by the last reset
  draws,             \* number of values drawn from any random source
  result,            \* outcome of the last call on the scene
  terrain,           \* the Terrain object
  pdBound            \* whether the name pd resolves in plane_terrain

engineVars == <<bodies, nextBodyId, engineCalls, rendering>>
sceneVars == <<sceneClass, config, pybullet_client, step_stones_ids, floor_id,
               floor_height, heightfieldData, first_stone_id, stepstone_ids,
               course, prevCourse, samples, prevData, created, buildCount,
               failedBuilds>>
envVars == <<envGround, setGroundCalls>>
streamVars == <<npStream, pyStream, draws>>
vars == <<engineVars, streamVars, sceneVars, envVars, result, terrain, pdBound>>

NoCourse == [stone_width |-> 0, platform_length |-> 0, stones |-> <<>>,
             floor_height |-> 0]
NoConfig == [num_stones |-> 0, random_seed |-> NoSeed, color_sequence |-> <<>>,
             rebuild_scene_during_reset |-> FALSE, num_rows |-> 0,
             num_columns |-> 0]
NoTerrain == [constructed |-> FALSE, terrain_source |-> "none", rows |-> 0,
              columns |-> 0, data |-> <<>>, prev |-> <<>>, samples |-> <<>>,
              generated |-> 0, terrain_shape |-> FALSE, error |-> "none"]
Outcome(op, kind, value) == [op |-> op, kind |-> kind, value |-> value]

(* A palette is a sequence of colors; a color is kept as its component     *)
(* count, the only thing the scene reads from it.                          *)
Palettes == UNION {[1..n -> {ColorLength - 1, ColorLength}] : n \in 1..MaxColors}

(* The process before any scene exists.  Both process-wide streams start   *)
(* from entropy at import: np.random in state nps, Python's random in the  *)
(* other state of that seeding (every reader reseeds it before drawing).   *)
InitWith(nps, pd) ==
  /\ bodies = {}
  /\ nextBodyId = 0
  /\ engineCalls = 0
  /\ rendering = 1
  /\ npStream = nps
  /\ pyStream = CHOOSE p \in EntropyStates(0) : p # nps
  /\ sceneClass = "None"
  /\ config = NoConfig
  /\ pybullet_client = "unset"
  /\ step_stones_ids = <<>>
  /\ floor_id = Unset
  /\ floor_height = 0
  /\ heightfieldData = <<>>
  /\ first_stone_id = Unset
  /\ stepstone_ids = <<>>
  /\ course = NoCourse
  /\ prevCourse = NoCourse
  /\ samples = <<>>
  /\ prevData = <<>>
  /\ created = {}
  /\ buildCount = 0
  /\ failedBuilds = 0
  /\ envGround = Unset
  /\ setGroundCalls = 0
  /\ draws = 0
  /\ result = Outcome("none", "none", 0)
  /\ terrain = NoTerrain
  /\ pdBound = pd

(* plane_terrain is not loaded: no Terrain object, pd unbound as shipped.  *)
Init == \E nps \in EntropyStates(0) : InitWith(nps, FALSE)

(* plane_terrain is loaded: it imports pybullet and random only, so the    *)
(* name pd is unbound, as in Init.  Neither heightfield generator reads    *)
(* np.random, so its start state is fixed here.                            *)
InitTerrain == InitWith(<<SeededKeys, 0>>, FALSE)

(* ------------------- stepstones helpers (stepstones.py) ----------------- *)
(* Engine calls one box costs: collision shape, body, visual tint.         *)
BoxCalls == 3

(* load_box: one static box body; the engine numbers bodies consecutively. *)
LoadBox(nb) == [id |-> nb, next |-> nb + 1]

(* build_one_stepstone: one box of the given length starting gap_length    *)
(* after start_pos; returns the end position and the body id.              *)
BuildOneStepstone(nb, start_x, stone_length, gap_length) ==
  [end_pos |-> start_x + gap_length + stone_length, id |-> LoadBox(nb).id]

(* build_random_stepstones: num_stones stones laid one after the other,    *)
(* each drawing length, gap and height offset, in that order, from the     *)
(* helper's own source seeded with random_seed; colors cycle through the   *)
(* palette.  s is the state of that source.                                *)
RECURSIVE PlanStones(_, _, _, _, _, _)
PlanStones(k, num_stones, x, s, ncolors, acc) ==
  IF k = num_stones THEN acc
  ELSE LET s1 == Advance(s)
           s2 == Advance(s1)
           s3 == Advance(s2)
           len == Uniform(StoneLengthLower, StoneLengthUpper, s1)
           gap == Uniform(GapLengthLower, GapLengthUpper, s2)
           off == Uniform(HeightOffsetLower, HeightOffsetUpper, s3)
           stone == [start |-> x + gap, length |-> len, gap |-> gap,
                     height_offset |-> off, color |-> (k % ncolors) + 1]
       IN PlanStones(k + 1, num_stones, x + gap + len, s3, ncolors,
                     Append(acc, stone))

BuildRandomStepstones(nb, start_x, num_stones, s, ncolors) ==
  [stones |-> PlanStones(0, num_stones, start_x, s, ncolors, <<>>),
   ids |-> [k \in 1..num_stones |-> nb + k - 1]]

(* The helper's source: seeded with random_seed, from entropy e for None.  *)
HelperSeed(seed, e) == IF seed = NoSeed THEN e ELSE SeedState(seed)

(* ----------------------- RandomStepstoneScene -------------------------- *)
(* Variant: only the first color of the palette is examined.              *)
ColorsValid_first(color_sequence) == color_sequence[1] = ColorLength

(* __init__: every color of the palette has exactly four components.       *)
ColorsValid(color_sequence) ==
  \A k \in DOMAIN color_sequence : color_sequence[k] = ColorLength

ConstructStepstone ==
  /\ sceneClass = "None"
  /\ \E n \in 0..MaxStones, seed \in Seeds, colors \in Palettes,
        rebuild \in BOOLEAN :
       IF ColorsValid(colors)
       THEN /\ sceneClass' = "RandomStepstoneScene"
            /\ config' = [NoConfig EXCEPT !.num_stones = n,
                                          !.random_seed = seed,
                                          !.color_sequence = colors,
                                          !.rebuild_scene_during_reset = rebuild]
            /\ result' = Outcome("init", "ok", 0)
       ELSE /\ result' = Outcome("init", "ValueError", 0)
            /\ UNCHANGED <<sceneClass, config>>
  /\ UNCHANGED <<engineVars, streamVars, pybullet_client, step_stones_ids,
                 floor_id, floor_height, heightfieldData, first_stone_id,
                 stepstone_ids, course, prevCourse, samples, prevData,
                 created, buildCount, failedBuilds, envVars, terrain,
                 pdBound>>

(* self.step_stones_ids = [first_stone_id + sid for sid in stepstone_ids]  *)
StoneIds(first, ids) == [k \in DOMAIN ids |-> first + ids[k]]

(* The whole of build_scene, for the helper source starting in state e     *)
(* when random_seed is None.                                               *)
DoBuildStepstone(e) ==
  LET u1 == Advance(npStream)
      u2 == Advance(u1)
      u3 == Advance(u2)
      stone_width == Uniform(StoneWidthLower, StoneWidthUpper, u1)
      platform_length == Uniform(PlatformLengthLower, PlatformLengthUpper, u2)
      one == BuildOneStepstone(nextBodyId, 0 - (platform_length \div 2),
                               platform_length, 0)
      rnd == BuildRandomStepstones(nextBodyId + 1, one.end_pos,
                                   config.num_stones,
                                   HelperSeed(config.random_seed, e),
                                   Len(config.color_sequence))
      fh == Uniform(FloorHeightLower, FloorHeightUpper, u3)
      floor == LoadBox(nextBodyId + 1 + config.num_stones)
      new == nextBodyId .. floor.id
  IN /\ pybullet_client' = "client"
     /\ npStream' = u3
     /\ draws' = draws + 3 + 3 * config.num_stones
     /\ first_stone_id' = one.id
     /\ stepstone_ids' = rnd.ids
     /\ step_stones_ids' = StoneIds(one.id, rnd.ids)
     /\ floor_height' = fh
     /\ floor_id' = floor.id
     /\ prevCourse' = course
     /\ course' = [stone_width |-> stone_width,
                   platform_length |-> platform_length,
                   stones |-> rnd.stones, floor_height |-> fh]
     /\ bodies' = bodies \cup new
     /\ nextBodyId' = floor.next
     /\ engineCalls' = engineCalls + BoxCalls * Cardinality(new)
     /\ created' = new
     /\ buildCount' = buildCount + 1
     /\ UNCHANGED <<rendering, pyStream, sceneClass, config, heightfieldData,
                    samples, prevData, failedBuilds, terrain, pdBound>>

(* build_scene(None): the attribute is assigned None, width and platform   *)
(* length are drawn, and the first stone's engine call then finds no       *)
(* client: AttributeError, nothing recorded, no body created.              *)
DoFailStepstone ==
  /\ pybullet_client' = "none"
  /\ npStream' = Advance(Advance(npStream))
  /\ draws' = draws + 2
  /\ failedBuilds' = failedBuilds + 1
  /\ UNCHANGED <<engineVars, pyStream, sceneClass, config, step_stones_ids,
                 floor_id, floor_height, heightfieldData, first_stone_id,
                 stepstone_ids, course, prevCourse, samples, prevData,
                 created, buildCount, terrain, pdBound>>

(* The engine handles a caller may pass to build_scene.                    *)
Clients == {"client", "none"}

(* Builds and generations a run may make.                                  *)
WithinBudget == buildCount + failedBuilds + terrain.generated < MaxBuilds

(* What the seeding a build_scene call makes can produce: the one state of *)
(* an integer random_seed, or for None the states of this call's own       *)
(* entropy seeding (seeding 0 is the import).                              *)
SeedChoices ==
  IF config.random_seed = NoSeed
  THEN EntropyStates(1 + buildCount + failedBuilds)
  ELSE {SeedState(config.random_seed)}

BuildStepstoneScene ==
  /\ sceneClass = "RandomStepstoneScene"
  /\ WithinBudget
  /\ \E client \in Clients :
       IF client = "none"
       THEN /\ DoFailStepstone
            /\ result' = Outcome("build_scene", "AttributeError", 0)
       ELSE /\ \E e \in SeedChoices :
                 DoBuildStepstone(e)
            /\ result' = Outcome("build_scene", "ok", 0)
  /\ UNCHANGED envVars

(* Variant: reset rebuilds whatever the flag says.                         *)
RebuildOnReset_always(flag) == TRUE

(* reset: if self._rebuild_scene_during_reset: build_scene(...)            *)
RebuildOnReset(flag) == flag

(* Variant: reset reports the first recorded stone handle, if any.         *)
ReportedGround_stone(floor, stones) ==
  IF stones # <<>> THEN stones[1] ELSE floor

(* reset: env.set_ground(self.floor_id)                                    *)
ReportedGround(floor, stones) == floor

ResetStepstone ==
  /\ sceneClass = "RandomStepstoneScene"
  /\ IF RebuildOnReset(config.rebuild_scene_during_reset)
     THEN \* self.build_scene(self._pybullet_client), then set_ground
          IF pybullet_client = "unset"
          THEN /\ result' = Outcome("reset", "AttributeError", 0)
               /\ UNCHANGED <<engineVars, streamVars, sceneVars, envVars,
                              terrain, pdBound>>
          ELSE IF pybullet_client = "none"
          THEN /\ WithinBudget
               /\ DoFailStepstone
               /\ result' = Outcome("reset", "AttributeError", 0)
               /\ UNCHANGED envVars
          ELSE /\ WithinBudget
               /\ \E e \in SeedChoices :
                    DoBuildStepstone(e)
               /\ envGround' = ReportedGround(floor_id', step_stones_ids')
               /\ setGroundCalls' = 1
               /\ result' = Outcome("reset", "ok", 0)
     ELSE IF floor_id = Unset
     THEN \* self.floor_id does not exist yet
          /\ result' = Outcome("reset", "AttributeError", 0)
          /\ UNCHANGED <<engineVars, streamVars, sceneVars, envVars, terrain,
                         pdBound>>
     ELSE /\ envGround' = ReportedGround(floor_id, step_stones_ids)
          /\ setGroundCalls' = 1
          /\ result' = Outcome("reset", "ok", 0)
          /\ UNCHANGED <<engineVars, streamVars, sceneVars, terrain, pdBound>>

(* The ground_height property.                                             *)
GroundHeightValue == 0

GroundHeight ==
  /\ sceneClass # "None"
  /\ result' = Outcome("ground_height", "value", GroundHeightValue)
  /\ UNCHANGED <<engineVars, streamVars, sceneVars, envVars, terrain, pdBound>>

(* Reading the floor_id attribute, the scene's ground handle.              *)
ReadFloorId ==
  /\ sceneClass # "None"
  /\ result' = IF floor_id = Unset
               THEN Outcome("floor_id", "AttributeError", 0)
               ELSE Outcome("floor_id", "value", floor_id)
  /\ UNCHANGED <<engineVars, streamVars, sceneVars, envVars, terrain, pdBound>>

(* The pybullet_client property: _pybullet_client is not assigned by       *)
(* __init__, so reading it before build_scene finds no attribute; after    *)
(* build_scene(None) it is None and the property raises ValueError.        *)
PybulletClientProperty ==
  /\ sceneClass # "None"
  /\ result' = IF pybullet_client = "unset"
               THEN Outcome("pybullet_client", "AttributeError", 0)
               ELSE IF pybullet_client = "none"
               THEN Outcome("pybullet_client", "ValueError", 0)
               ELSE Outcome("pybullet_client", "value", 0)
  /\ UNCHANGED <<engineVars, streamVars, sceneVars, envVars, terrain, pdBound>>

(* ---------------------- heightfield synthesis -------------------------- *)
(* Variant: the loop bound is one block short for an even dimension.      *)
Half_short(n) == (n - 1) \div 2

(* int(n / 2), the number of 2x2 blocks along a dimension of n cells.      *)
Half(n) == n \div 2

(* Variant: the third assignment repeats the fourth index.                *)
BlockCells_slip(i, j, rows) ==
  <<2 * i + 2 * j * rows, 2 * i + 1 + 2 * j * rows,
    2 * i + 1 + (2 * j + 1) * rows, 2 * i + 1 + (2 * j + 1) * rows>>

(* The four list indices the loop body assigns for block (i, j).           *)
BlockCells(i, j, rows) ==
  <<2 * i + 2 * j * rows, 2 * i + 1 + 2 * j * rows,
    2 * i + (2 * j + 1) * rows, 2 * i + 1 + (2 * j + 1) * rows>>

(* data[c] = height for each index c of cells (list index c is element     *)
(* c + 1 of the sequence).                                                 *)
WriteCells(data, cells, height) ==
  [k \in DOMAIN data |->
     IF \E c \in DOMAIN cells : cells[c] + 1 = k THEN height ELSE data[k]]

(* The nested loop, j outer and i inner, from block number k on: one draw  *)
(* from the stream per block, written to the block's four cells.           *)
RECURSIVE FillBlocks(_, _, _, _, _, _, _)
FillBlocks(k, rows, columns, high, s, data, drawn) ==
  IF k >= Half(columns) * Half(rows)
  THEN [data |-> data, stream |-> s, samples |-> drawn]
  ELSE LET j == k \div Half(rows)
           i == k % Half(rows)
           s1 == Advance(s)
           height == Uniform(0, high, s1)
       IN FillBlocks(k + 1, rows, columns, high, s1,
                     WriteCells(data, BlockCells(i, j, rows), height),
                     Append(drawn, height))

(* heightfieldData = [0] * rows * columns, then the loop.                  *)
GenerateGrid(rows, columns, high, s) ==
  FillBlocks(0, rows, columns, high, s, [k \in 1..(rows * columns) |-> 0], <<>>)

(* --------------------- RandomHeightFieldTerrain ------------------------ *)
ConstructHeightField ==
  /\ sceneClass = "None"
  /\ \E r \in 1..MaxDim, c \in 1..MaxDim, seed \in Seeds, rebuild \in BOOLEAN :
       config' = [NoConfig EXCEPT !.num_rows = r, !.num_columns = c,
                                  !.random_seed = seed,
                                  !.rebuild_scene_during_reset = rebuild]
  /\ sceneClass' = "RandomHeightFieldTerrain"
  /\ result' = Outcome("init", "ok", 0)
  /\ UNCHANGED <<engineVars, streamVars, pybullet_client, step_stones_ids,
                 floor_id, floor_height, heightfieldData, first_stone_id,
                 stepstone_ids, course, prevCourse, samples, prevData,
                 created, buildCount, failedBuilds, envVars, terrain,
                 pdBound>>

(* Variant: build_scene does not reseed; the stream goes on from where it  *)
(* stands.                                                                 *)
Reseed_skip(seed, e) == pyStream

(* random.seed(n): a fixed state for an integer, entropy e for None.       *)
Reseed(seed, e) == IF seed = NoSeed THEN e ELSE SeedState(seed)

(* The whole of build_scene; e is the entropy random.seed(None) would use. *)
DoBuildHeightField(e) ==
  LET grid == GenerateGrid(config.num_rows, config.num_columns,
                           HeightRange * HeightRangeFactor,
                           Reseed(config.random_seed, e))
  IN /\ pybullet_client' = "client"
     /\ pyStream' = grid.stream
     /\ draws' = draws + Len(grid.samples)
     /\ rendering' = 0
     /\ prevData' = heightfieldData
     /\ heightfieldData' = grid.data
     /\ samples' = grid.samples
     /\ bodies' = bodies \cup {nextBodyId}
     /\ floor_id' = nextBodyId
     /\ nextBodyId' = nextBodyId + 1
     /\ engineCalls' = engineCalls + 4
     /\ created' = {nextBodyId}
     /\ buildCount' = buildCount + 1
     /\ UNCHANGED <<npStream, sceneClass, config, step_stones_ids,
                    floor_height, first_stone_id, stepstone_ids, course,
                    prevCourse, failedBuilds, terrain, pdBound>>

(* build_scene(None): the attribute is assigned None, the stream is        *)
(* reseeded, and configureDebugVisualizer then finds no client:            *)
(* AttributeError before any draw and any engine call.                     *)
DoFailHeightField(e) ==
  /\ pybullet_client' = "none"
  /\ pyStream' = Reseed(config.random_seed, e)
  /\ failedBuilds' = failedBuilds + 1
  /\ UNCHANGED <<engineVars, npStream, draws, sceneClass, config,
                 step_stones_ids, floor_id, floor_height, heightfieldData,
                 first_stone_id, stepstone_ids, course, prevCourse, samples,
                 prevData, created, buildCount, terrain, pdBound>>

BuildHeightField ==
  /\ sceneClass = "RandomHeightFieldTerrain"
  /\ WithinBudget
  /\ \E client \in Clients, e \in SeedChoices :
       IF client = "none"
       THEN /\ DoFailHeightField(e)
            /\ result' = Outcome("build_scene", "AttributeError", 0)
       ELSE /\ DoBuildHeightField(e)
            /\ result' = Outcome("build_scene", "ok", 0)
  /\ UNCHANGED envVars

ResetHeightField ==
  /\ sceneClass = "RandomHeightFieldTerrain"
  /\ IF RebuildOnReset(config.rebuild_scene_during_reset)
     THEN \* self.build_scene(self._pybullet_client), then set_ground
          IF pybullet_client = "unset"
          THEN /\ result' = Outcome("reset", "AttributeError", 0)
               /\ UNCHANGED <<engineVars, streamVars, sceneVars, envVars,
                              terrain, pdBound>>
          ELSE IF pybullet_client = "none"
          THEN /\ WithinBudget
               /\ \E e \in SeedChoices :
                    DoFailHeightField(e)
               /\ result' = Outcome("reset", "AttributeError", 0)
               /\ UNCHANGED envVars
          ELSE /\ WithinBudget
               /\ \E e \in SeedChoices :
                    DoBuildHeightField(e)
               /\ envGround' = ReportedGround(floor_id', step_stones_ids')
               /\ setGroundCalls' = 1
               /\ result' = Outcome("reset", "ok", 0)
     ELSE IF floor_id = Unset
     THEN \* self.floor_id does not exist yet
          /\ result' = Outcome("reset", "AttributeError", 0)
          /\ UNCHANGED <<engineVars, streamVars, sceneVars, envVars, terrain,
                         pdBound>>
     ELSE /\ envGround' = ReportedGround(floor_id, step_stones_ids)
          /\ setGroundCalls' = 1
          /\ result' = Outcome("reset", "ok", 0)
          /\ UNCHANGED <<engineVars, streamVars, sceneVars, terrain, pdBound>>

(* ------------------------------ Terrain -------------------------------- *)
TerrainSources == {"random", "plane"}

(* Terrain.__init__: seeds the process-wide stream once, keeps its args.   *)
ConstructTerrain ==
  /\ ~terrain.constructed
  /\ \E src \in TerrainSources, r \in 1..MaxDim, c \in 1..MaxDim :
       terrain' = [NoTerrain EXCEPT !.constructed = TRUE,
                                    !.terrain_source = src,
                                    !.rows = r, !.columns = c]
  /\ pyStream' = SeedState(TerrainSeed)
  /\ UNCHANGED <<engineVars, npStream, draws, sceneVars, envVars, result,
                 pdBound>>

(* Terrain.generate_terrain with the default height_perturbation_range.    *)
(* Its first statement reads the name pd, which the module never binds.    *)
GenerateTerrain ==
  /\ terrain.constructed
  /\ WithinBudget
  /\ IF ~pdBound
     THEN /\ terrain' = [terrain EXCEPT !.error = "NameError"]
          /\ UNCHANGED <<engineVars, streamVars>>
     ELSE IF terrain.terrain_source # "random"
     THEN \* terrain_shape is read at the end without having been assigned
          /\ terrain' = [terrain EXCEPT !.error = "UnboundLocalError",
                                        !.generated = @ + 1]
          /\ engineCalls' = engineCalls + 2
          /\ rendering' = 0
          /\ UNCHANGED <<bodies, nextBodyId, streamVars>>
     ELSE LET grid == GenerateGrid(terrain.rows, terrain.columns,
                                   HeightPerturbationRange, pyStream)
          IN /\ terrain' = [terrain EXCEPT !.data = grid.data,
                                           !.prev = terrain.data,
                                           !.samples = grid.samples,
                                           !.generated = @ + 1,
                                           !.terrain_shape = TRUE,
                                           !.error = "none"]
             /\ pyStream' = grid.stream
             /\ draws' = draws + Len(grid.samples)
             /\ rendering' = 0
             /\ bodies' = bodies \cup {nextBodyId}
             /\ nextBodyId' = nextBodyId + 1
             /\ engineCalls' = engineCalls + 6
             /\ UNCHANGED npStream
  /\ UNCHANGED <<sceneVars, envVars, result, pdBound>>

(* --------------------------- specifications ---------------------------- *)
(* The scene adapters with the engine and the environment.                 *)
Next ==
  \/ ConstructStepstone
  \/ ConstructHeightField
  \/ BuildStepstoneScene
  \/ BuildHeightField
  \/ ResetStepstone
  \/ ResetHeightField
  \/ GroundHeight
  \/ ReadFloorId
  \/ PybulletClientProperty

Spec == Init /\ [][Next]_vars

(* Terrain.__init__ for a square grid: what it does to the shared stream   *)
(* does not depend on its arguments.                                       *)
ConstructSquareTerrain == ConstructTerrain /\ terrain'.rows = terrain'.columns

(* The two heightfield generators in one process, sharing Python's        *)
(* random stream.                                                          *)
NextGenerators ==
  \/ ConstructHeightField
  \/ BuildHeightField
  \/ ResetHeightField
  \/ ConstructSquareTerrain
  \/ GenerateTerrain

SpecGenerators == InitTerrain /\ [][NextGenerators]_vars

(* A process that uses one heightfield generator, of either class.         *)
NextGrid ==
  \/ (~terrain.constructed /\ ConstructHeightField)
  \/ BuildHeightField
  \/ ResetHeightField
  \/ (sceneClass = "None" /\ ConstructTerrain)
  \/ GenerateTerrain

SpecGrid == InitTerrain /\ [][NextGrid]_vars

(* ------------------------------- claims -------------------------------- *)
IsStepstone == sceneClass = "RandomStepstoneScene"
IsHeightField == sceneClass = "RandomHeightFieldTerrain"
ResetDone == result.op = "reset" /\ result.kind = "ok"

(* C1: after build_scene with num_stones = N the recorded stone handles    *)
(* are N + 1: the platform stone's handle, then the N random stones'       *)
(* handles unchanged and in placement order.                               *)
C1_StoneHandlesRecorded ==
  (IsStepstone /\ buildCount > 0) =>
    /\ Len(step_stones_ids) = config.num_stones + 1
    /\ step_stones_ids[1] = first_stone_id
    /\ \A k \in 1..config.num_stones : step_stones_ids[k + 1] = stepstone_ids[k]

(* C2: on a scene that has never been built, the ground-height accessor    *)
(* and the ground-handle accessor fail; neither returns a value.           *)
C2_AccessorsFailBeforeBuild ==
  (result.op \in {"ground_height", "floor_id"} /\ buildCount = 0) =>
    result.kind # "value"

(* C3: after a reset that rebuilds, the bodies alive in the engine are     *)
(* exactly those the most recent build created.                            *)
C3_OnlyLatestGenerationLive ==
  (ResetDone /\ config.rebuild_scene_during_reset) => bodies = created

(* C4: with rebuild_scene_during_reset false, a reset of a built scene     *)
(* makes no engine call, draws no random value, leaves the scene and its   *)
(* recorded handles as they were and reports the floor of the preceding    *)
(* build; a reset right after a reset changes nothing at all.              *)
C4_ResetKeepsScene ==
  [][(result'.op = "reset" /\ result'.kind = "ok"
        /\ ~config.rebuild_scene_during_reset)
       => /\ engineVars' = engineVars
          /\ streamVars' = streamVars
          /\ sceneVars' = sceneVars
          /\ envGround' = floor_id
          /\ (ResetDone => vars' = vars)]_vars

C4_Witness ==
  /\ ResetDone
  /\ ~config.rebuild_scene_during_reset
  /\ IsStepstone
  /\ config.num_stones > 0
  /\ envGround = floor_id
  /\ engineCalls > 0

(* C5: with an integer seed, two builds of the same stepstone              *)
(* configuration plan the same course: stone width, platform length,       *)
(* stones and floor height.                                                *)
C5_SeededBuildsRepeatCourse ==
  (IsStepstone /\ config.random_seed # NoSeed /\ buildCount >= 2) =>
    course = prevCourse

(* C6: with a fixed seed every build of a heightfield generator yields     *)
(* the same grid, the one the seed alone determines: a first build, a      *)
(* rebuild of the scene after whatever else reseeded or drew from the      *)
(* shared stream, a repeated generate_terrain on one Terrain.              *)
C6_SeededGridsRepeat ==
  /\ (IsHeightField /\ config.random_seed # NoSeed /\ buildCount >= 1) =>
       heightfieldData = GenerateGrid(config.num_rows, config.num_columns,
                                      HeightRange * HeightRangeFactor,
                                      SeedState(config.random_seed)).data
  /\ (IsHeightField /\ config.random_seed # NoSeed /\ buildCount >= 2) =>
       heightfieldData = prevData
  /\ terrain.prev # <<>> => terrain.data = terrain.prev
  /\ terrain.data # <<>> =>
       terrain.data = GenerateGrid(terrain.rows, terrain.columns,
                                   HeightPerturbationRange,
                                   SeedState(TerrainSeed)).data

(* A seeded 4x4 scene built twice, with a Terrain constructed in the same  *)
(* process and the shared stream left in another state than the scene's    *)
(* build leaves it in.                                                     *)
C6_Witness ==
  /\ IsHeightField
  /\ config.random_seed # NoSeed
  /\ buildCount >= 2
  /\ terrain.constructed
  /\ pyStream = SeedState(TerrainSeed)
  /\ config.num_rows = 4
  /\ config.num_columns = 4
  /\ Cardinality({heightfieldData[k] : k \in 1..16}) = 4
  /\ heightfieldData = prevData

(* The cell in row r and column c of a grid of the given number of rows.   *)
Cell(data, r, c, rows) == data[r + c * rows + 1]

BlocksOf(data, drawn, rows, columns) ==
  /\ Len(drawn) = (rows \div 2) * (columns \div 2)
  /\ \A i \in 0..((rows \div 2) - 1), j \in 0..((columns \div 2) - 1) :
       LET h == drawn[j * (rows \div 2) + i + 1]
       IN /\ Cell(data, 2 * i, 2 * j, rows) = h
          /\ Cell(data, 2 * i + 1, 2 * j, rows) = h
          /\ Cell(data, 2 * i, 2 * j + 1, rows) = h
          /\ Cell(data, 2 * i + 1, 2 * j + 1, rows) = h

(* C7: in every synthesized grid the four cells of each block (i, j),      *)
(* i < rows div 2 and j < columns div 2, hold the one height sampled for   *)
(* that block.                                                             *)
C7_BlocksShareSample ==
  /\ (IsHeightField /\ buildCount > 0) =>
       BlocksOf(heightfieldData, samples, config.num_rows, config.num_columns)
  /\ terrain.data # <<>> =>
       BlocksOf(terrain.data, terrain.samples, terrain.rows, terrain.columns)

C7_Witness ==
  /\ IsHeightField
  /\ buildCount > 0
  /\ config.num_rows = 4
  /\ config.num_columns = 4
  /\ Len(samples) = 4
  /\ Cardinality({samples[k] : k \in 1..4}) = 4
  /\ Cell(heightfieldData, 3, 3, 4) = samples[4]

(* Every cell of the grid holds the height sampled for the block it is in. *)
AllCellsSampled(data, drawn, rows, columns) ==
  /\ Len(data) = rows * columns
  /\ Len(drawn) = (rows \div 2) * (columns \div 2)
  /\ \A r \in 0..(rows - 1), c \in 0..(columns - 1) :
       /\ r \div 2 < rows \div 2
       /\ c \div 2 < columns \div 2
       /\ Cell(data, r, c, rows) = drawn[(c \div 2) * (rows \div 2) + (r \div 2) + 1]

(* C8 as stated: for all positive rows and columns every cell of the grid  *)
(* has been assigned a sampled block height.                               *)
C8_GridFullyPopulated ==
  /\ (IsHeightField /\ buildCount > 0) =>
       AllCellsSampled(heightfieldData, samples, config.num_rows,
                       config.num_columns)
  /\ terrain.data # <<>> =>
       AllCellsSampled(terrain.data, terrain.samples, terrain.rows,
                       terrain.columns)

(* The cells of the last row of an odd number of rows, and of the last     *)
(* column of an odd number of columns, keep the initial 0.                 *)
OddEdgeZero(data, rows, columns) ==
  \A r \in 0..(rows - 1), c \in 0..(columns - 1) :
    ((rows % 2 = 1 /\ r = rows - 1) \/ (columns % 2 = 1 /\ c = columns - 1))
      => Cell(data, r, c, rows) = 0

PopulatedWhenEven(data, drawn, rows, columns) ==
  /\ (rows % 2 = 0 /\ columns % 2 = 0) =>
       AllCellsSampled(data, drawn, rows, columns)
  /\ OddEdgeZero(data, rows, columns)

(* C8 amended: for even rows and columns every cell of the grid has been   *)
(* assigned the height sampled for its block; when a dimension is odd,     *)
(* its last row or column keeps the initial 0.                             *)
C8_GridPopulatedWhenEven ==
  /\ (IsHeightField /\ buildCount > 0) =>
       PopulatedWhenEven(heightfieldData, samples, config.num_rows,
                         config.num_columns)
  /\ terrain.data # <<>> =>
       PopulatedWhenEven(terrain.data, terrain.samples, terrain.rows,
                         terrain.columns)

C8_Witness ==
  /\ IsHeightField
  /\ buildCount > 0
  /\ config.num_rows = 2
  /\ config.num_columns = 4
  /\ \A k \in 1..8 : heightfieldData[k] # 0
  /\ heightfieldData[1] # heightfieldData[5]

(* C9: a stepstone scene is never constructed from a palette holding a     *)
(* color that has not four components; the construction fails with         *)
(* ValueError before any random draw and any engine call, and leaves no    *)
(* scene and no body.                                                      *)
C9_BadPaletteFailsFast ==
  /\ IsStepstone =>
       \A k \in 1..Len(config.color_sequence) : config.color_sequence[k] = 4
  /\ (result.op = "init" /\ result.kind = "ValueError") =>
       /\ sceneClass = "None"
       /\ bodies = {}
       /\ nextBodyId = 0
       /\ engineCalls = 0
       /\ draws = 0

C9_Witness ==
  /\ result.op = "init"
  /\ result.kind = "ValueError"
  /\ sceneClass = "None"

(* C10: every reset of a built scene makes one set_ground call, and the    *)
(* handle it reports is the floor or terrain body of the most recent       *)
(* build: the last body that build created.                                *)
C10_ResetReportsLatestFloor ==
  /\ ResetDone =>
       /\ setGroundCalls = 1
       /\ envGround \in created
       /\ envGround = nextBodyId - 1
       /\ IsStepstone =>
            /\ envGround # first_stone_id
            /\ \A k \in 1..Len(stepstone_ids) : envGround # stepstone_ids[k]
  /\ (result.op = "reset" /\ buildCount > 0 /\ pybullet_client = "client") =>
       result.kind = "ok"

C10_Witness ==
  /\ ResetDone
  /\ IsStepstone
  /\ config.rebuild_scene_during_reset
  /\ config.num_stones > 0
  /\ buildCount >= 2
  /\ envGround = floor_id
  /\ envGround \notin {first_stone_id, step_stones_ids[1]}

====
